---- MODULE Spec2Model ----
(***************************************************************************)
(* A model of ExcelHandler (src/excel_handler.py): a session object that   *)
(* drives one Excel application through COM.  The model keeps the state of *)
(* the session object (its attributes excel_app, work_book, sheet), the    *)
(* state of the Excel application the attributes refer to (the Workbooks   *)
(* collection, the active workbook, the cells of the bound sheet) and the  *)
(* files on disk.  Every public method is one action.                      *)
(*                                                                         *)
(* Three specifications share the variables:                               *)
(*   Spec      the session: open_excel, create_new, set_sheet, close and   *)
(*             the exit of the with-block;                                 *)
(*   SpecScan  the cells of the bound sheet: get_columns_count,            *)
(*             get_rows_count, fetch_all, fetch_range, update_cell;        *)
(*   SpecDict  get_as_dict, a function of its arguments alone.             *)
(***************************************************************************)
EXTENDS Integers, Sequences, FiniteSets, TLC

VARIABLES
    excel_app,   \* "live" while self.excel_app exists, "deleted" after `del`
    work_book,   \* self.work_book: a workbook id, 0 while the attribute is unset
    sheet,       \* self.sheet: <<workbook id, sheet index>>, <<0, 0>> while unset
    books,       \* Excel: the Workbooks collection, in the order of opening
    active,      \* Excel: the id of ActiveWorkbook, 0 when there is none
    released,    \* how many times the application handle was released
    files,       \* the file system: path -> the sheet names of that workbook
    pc,          \* "block" inside the with-block, "exited" after __exit__
    last,        \* the last session call: arguments, outcome, state before it
    grid,        \* Excel: the cells of the bound sheet (SpecScan)
    out,         \* the last call on the cells and what it produced (SpecScan)
    rec          \* the last get_as_dict call and its records (SpecDict)

vars == <<excel_app, work_book, sheet, books, active, released, files, pc,
          last, grid, out, rec>>

sessionVars == <<excel_app, work_book, sheet, books, active, released, files,
                 pc, last>>

----------------------------------------------------------------------------
(* Bounds of the model. *)

MaxSheets == 2      \* sheets in a workbook on disk
MaxBooks  == 2      \* workbooks one session opens or creates

(* Sheet names.  "X" and "x" differ only in case. *)
SheetNames == {"X", "x", "Y", "Z"}

(* `not sheet_name` holds of None and of "": both are modelled as "". *)
NoName == ""

Fold(n) == IF n = "x" THEN "X" ELSE n

SeqsUpTo(S, n) == UNION {[1..k -> S] : k \in 0..n}

(* Excel keeps the sheet names of one workbook distinct, case ignored, and  *)
(* a workbook has at least one sheet.                                       *)
SheetLists ==
    {s \in SeqsUpTo(SheetNames, MaxSheets) :
        /\ Len(s) >= 1
        /\ \A i, j \in 1..Len(s) : i # j => Fold(s[i]) # Fold(s[j])}

ExistingPath == "a.xls"
MissingPath  == "missing.xls"
Paths        == {ExistingPath, MissingPath}

(* The sheets of the workbook Workbooks.Add() creates. *)
BlankSheets == <<"Sheet1">>
BlankPath   == "<new>"

SeqRange(s) == {s[i] : i \in 1..Len(s)}

BookIds == {b.id : b \in SeqRange(books)}

BookOf(id) == CHOOSE b \in SeqRange(books) : b.id = id

----------------------------------------------------------------------------
(* set_sheet *)

(* A comparison that ignores case, as Excel itself compares sheet names. *)
NameMatchesFold(name, sheet_name) == Fold(name) = Fold(sheet_name)

(* `self.sheet.name == sheet_name`: equality of Python strings. *)
NameMatches(name, sheet_name) == name = sheet_name

(* The for loop of set_sheet over the sheets of workbook wb, from           *)
(* sheet_number on; cur is self.sheet so far.  Every visited sheet is       *)
(* assigned to self.sheet before its name is compared; `break` ends the     *)
(* loop at the first match, the `else` branch raises when none matched.     *)
RECURSIVE ScanSheets(_, _, _, _, _)
ScanSheets(wb, names, sheet_name, sheet_number, cur) ==
    IF sheet_number > Len(names)
    THEN [sheet |-> cur, outcome |-> "NotFoundSheetError"]
    ELSE IF NameMatches(names[sheet_number], sheet_name)
         THEN [sheet |-> <<wb, sheet_number>>, outcome |-> "ok"]
         ELSE ScanSheets(wb, names, sheet_name, sheet_number + 1,
                         <<wb, sheet_number>>)

(* set_sheet(sheet_name) with self.work_book = wb and self.sheet = cur, on  *)
(* the Workbooks collection bks.  An unset self.work_book is an             *)
(* AttributeError; a workbook that Excel has closed is a COM error.         *)
SetSheet(bks, wb, cur, sheet_name) ==
    IF wb = 0
    THEN [sheet |-> cur, outcome |-> "AttributeError", calls |-> <<>>]
    ELSE IF wb \notin {b.id : b \in SeqRange(bks)}
    THEN [sheet |-> cur, outcome |-> "com_error", calls |-> <<"Sheets">>]
    ELSE LET names == (CHOOSE b \in SeqRange(bks) : b.id = wb).names IN
         IF sheet_name = NoName
         THEN [sheet |-> <<wb, 1>>, outcome |-> "ok", calls |-> <<"Sheets(1)">>]
         ELSE LET r == ScanSheets(wb, names, sheet_name, 1, cur) IN
              [sheet |-> r.sheet, outcome |-> r.outcome,
               calls |-> <<"Sheets.Count", "Sheets(i)">>]

----------------------------------------------------------------------------
(* The session: __init__, open_excel, create_new, set_sheet, close, __exit__ *)

NoCall == [op |-> "__init__", path |-> "", name |-> NoName, outcome |-> "ok",
           calls |-> <<>>, pre_book |-> 0, pre_sheet |-> <<0, 0>>,
           pre_books |-> <<>>, pre_app |-> "live", added |-> 0]

(* The call record of an operation that runs in the current state. *)
Call(op, path, name, outcome, calls, added) ==
    [op |-> op, path |-> path, name |-> name, outcome |-> outcome,
     calls |-> calls, pre_book |-> work_book, pre_sheet |-> sheet,
     pre_books |-> books, pre_app |-> excel_app, added |-> added]

(* __init__: Dispatch("Excel.Application") gives an application with no     *)
(* workbook; work_book and sheet are not set by the constructor.            *)
SessionInit ==
    /\ excel_app = "live"
    /\ work_book = 0
    /\ sheet = <<0, 0>>
    /\ books = <<>>
    /\ active = 0
    /\ released = 0
    /\ pc = "block"
    /\ last = NoCall

(* An open_excel that skips the test of the path. *)
ExistsAlways(file_path) == TRUE

(* os.path.exists(file_path) *)
Exists(file_path) == file_path \in DOMAIN files

(* Workbooks.open(file_path) in Excel: a file that is already open is       *)
(* activated, any other file is appended to the collection and activated;   *)
(* a path with no file behind it is a COM error.                            *)
OpenIds(file_path) == {b.id : b \in {c \in SeqRange(books) : c.path = file_path}}

NewId == Len(books) + 1

(* The tail of open_excel and of create_new: WorkBooks(1) is bound, then    *)
(* set_sheet(sheet_name) runs on it.                                        *)
BindFirst(op, file_path, sheet_name, bks, added, openCall) ==
    LET wb == bks[1].id
        r  == SetSheet(bks, wb, sheet, sheet_name) IN
    /\ work_book' = wb
    /\ sheet' = r.sheet
    /\ last' = Call(op, file_path, sheet_name, r.outcome,
                    <<openCall, "WorkBooks(1)">> \o r.calls, added)

open_excel(file_path, sheet_name) ==
    /\ pc = "block"
    /\ IF ~Exists(file_path)
       THEN /\ last' = Call("open_excel", file_path, sheet_name,
                            "NotFoundExcelFileError", <<>>, 0)
            /\ UNCHANGED <<excel_app, work_book, sheet, books, active>>
       ELSE IF excel_app = "deleted"
       THEN /\ last' = Call("open_excel", file_path, sheet_name,
                            "AttributeError", <<>>, 0)
            /\ UNCHANGED <<excel_app, work_book, sheet, books, active>>
       ELSE IF file_path \notin DOMAIN files
       THEN /\ last' = Call("open_excel", file_path, sheet_name,
                            "com_error", <<"Workbooks.open">>, 0)
            /\ UNCHANGED <<excel_app, work_book, sheet, books, active>>
       ELSE IF OpenIds(file_path) # {}
       THEN /\ active' = CHOOSE id \in OpenIds(file_path) : TRUE
            /\ BindFirst("open_excel", file_path, sheet_name, books, 0,
                         "Workbooks.open")
            /\ UNCHANGED <<excel_app, books>>
       ELSE /\ Len(books) < MaxBooks
            /\ books' = Append(books, [id |-> NewId, path |-> file_path,
                                       names |-> files[file_path]])
            /\ active' = NewId
            /\ BindFirst("open_excel", file_path, sheet_name, books', NewId,
                         "Workbooks.open")
            /\ UNCHANGED excel_app
    /\ UNCHANGED <<released, files, pc, grid, out, rec>>

create_new ==
    /\ pc = "block"
    /\ IF excel_app = "deleted"
       THEN /\ last' = Call("create_new", "", NoName, "AttributeError", <<>>, 0)
            /\ UNCHANGED <<excel_app, work_book, sheet, books, active>>
       ELSE /\ Len(books) < MaxBooks
            /\ books' = Append(books, [id |-> NewId, path |-> BlankPath,
                                       names |-> BlankSheets])
            /\ active' = NewId
            /\ BindFirst("create_new", "", NoName, books', NewId,
                         "Workbooks.Add")
            /\ UNCHANGED excel_app
    /\ UNCHANGED <<released, files, pc, grid, out, rec>>

set_sheet(sheet_name) ==
    /\ pc = "block"
    /\ LET r == SetSheet(books, work_book, sheet, sheet_name) IN
       /\ sheet' = r.sheet
       /\ last' = Call("set_sheet", "", sheet_name, r.outcome, r.calls, 0)
    /\ UNCHANGED <<excel_app, work_book, books, active, released, files, pc,
                   grid, out, rec>>

(* The body of close(): without self.excel_app the first line raises        *)
(* AttributeError.  Otherwise the active workbook, if there is one, is      *)
(* closed and leaves the collection (Excel then activates one of the        *)
(* workbooks that remain), and `del self.excel_app` releases the handle.    *)
CloseStep(op) ==
    IF excel_app = "deleted"
    THEN /\ last' = Call(op, "", NoName, "AttributeError", <<>>, 0)
         /\ UNCHANGED <<excel_app, books, active, released>>
    ELSE /\ excel_app' = "deleted"
         /\ released' = released + 1
         /\ IF active = 0
            THEN /\ UNCHANGED <<books, active>>
                 /\ last' = Call(op, "", NoName, "ok", <<"ActiveWorkbook">>, 0)
            ELSE /\ books' = SelectSeq(books, LAMBDA b : b.id # active)
                 /\ \/ /\ books' = <<>>
                       /\ active' = 0
                    \/ \E b \in SeqRange(books') : active' = b.id
                 /\ last' = Call(op, "", NoName, "ok",
                                 <<"ActiveWorkbook", "ActiveWorkbook.Close">>, 0)

close ==
    /\ pc = "block"
    /\ CloseStep("close")
    /\ UNCHANGED <<work_book, sheet, files, pc, grid, out, rec>>

(* __exit__: the with-block ends, normally or through an error, and        *)
(* close() runs; what it raises leaves the with statement.                  *)
exit ==
    /\ pc = "block"
    /\ CloseStep("__exit__")
    /\ pc' = "exited"
    /\ UNCHANGED <<work_book, sheet, files, grid, out, rec>>

EmptyGrid == <<>>

Init ==
    /\ SessionInit
    /\ files \in [{ExistingPath} -> SheetLists]
    /\ grid = EmptyGrid
    /\ out = <<>>
    /\ rec = <<>>

Next ==
    \/ \E p \in Paths, n \in SheetNames \cup {NoName} : open_excel(p, n)
    \/ create_new
    \/ \E n \in SheetNames \cup {"Sheet1", NoName} : set_sheet(n)
    \/ close
    \/ exit

Spec == Init /\ [][Next]_vars

----------------------------------------------------------------------------
(* Properties of the session (checked under Spec). *)

SetMin(S) == CHOOSE m \in S : \A k \in S : m <= k

(* C2: when set_sheet(name) fails with NotFoundSheetError, the session is   *)
(* bound to the same sheet as before the call.                              *)
C2_FailedSetSheetKeepsSheet ==
    (/\ last.op = "set_sheet"
     /\ last.name # NoName
     /\ last.outcome = "NotFoundSheetError")
    => sheet = last.pre_sheet

(* C3: set_sheet(name) with a non-empty name on a bound workbook ends bound *)
(* to the lowest-indexed sheet whose name equals name exactly, whatever was *)
(* bound before; when no sheet has that name it fails with                  *)
(* NotFoundSheetError.                                                      *)
C3_SetSheetBindsFirstMatch ==
    (/\ last.op = "set_sheet"
     /\ last.name # NoName
     /\ work_book \in BookIds)
    => LET names == BookOf(work_book).names
           hits  == {i \in 1..Len(names) : names[i] = last.name} IN
       IF hits # {}
       THEN /\ last.outcome = "ok"
            /\ sheet = <<work_book, SetMin(hits)>>
       ELSE last.outcome = "NotFoundSheetError"

(* A named sheet found at index 2 while another sheet was bound. *)
C3_Witness ==
    /\ last.op = "set_sheet"
    /\ last.name # NoName
    /\ last.outcome = "ok"
    /\ sheet = <<work_book, 2>>
    /\ last.pre_sheet # sheet
    /\ last.pre_sheet # <<0, 0>>

C9_ExitClosesCleanly ==
    pc = "exited" => (last.outcome = "ok" /\ released = 1)

(* C10: a successful create_new leaves the session bound to the workbook    *)
(* this call added and to sheet 1 of it.                                    *)
C10_CreateNewBindsNewBook ==
    (last.op = "create_new" /\ last.outcome = "ok")
    => (work_book = last.added /\ sheet = <<last.added, 1>>)

----------------------------------------------------------------------------
(* The cells of the bound sheet: get_columns_count, get_rows_count,         *)
(* fetch_all, fetch_range, update_cell.                                     *)

MaxRow == 2         \* rows of the sheet that may hold a value
MaxCol == 2         \* columns of the sheet that may hold a value

(* What Cells(r, c).value returns through COM: None for an empty cell, a    *)
(* float for a number, a bool, a str for text, a datetime for a date.       *)
CellValues == {"None", "0.0", "7.0", "False", "True", "ab", "2023-01-01"}

TextValues == {"ab"}

(* Iterating a Python str yields its characters. *)
Chars(v) == IF v = "ab" THEN <<"a", "b">> ELSE <<>>

Grids == [1..MaxRow -> [1..MaxCol -> CellValues]]

(* A missing argument (None) of fetch_all. *)
NoneArg == -1

Positions == (1..MaxRow) \X (1..MaxCol)

(* sheet.Cells(row, col).value for row, col >= 1: every cell outside the    *)
(* populated part of the sheet is empty.                                    *)
Cell(g, row, col) ==
    IF row \in 1..MaxRow /\ col \in 1..MaxCol THEN g[row][col] ELSE "None"

(* The truth value Python gives a cell value in `while ...value:`. None,    *)
(* 0.0 and False are false; a non-empty str, a non-zero float, True and a   *)
(* datetime are true.                                                       *)
Truthy(v) == v \notin {"None", "0.0", "False"}

RECURSIVE ColumnsFrom(_, _)
ColumnsFrom(g, column_count) ==
    IF Truthy(Cell(g, 1, column_count))
    THEN ColumnsFrom(g, column_count + 1)
    ELSE column_count - 1

GetColumnsCount(g) == ColumnsFrom(g, 1)

RECURSIVE RowsFrom(_, _)
RowsFrom(g, row_count) ==
    IF Truthy(Cell(g, row_count, 1))
    THEN RowsFrom(g, row_count + 1)
    ELSE row_count - 1

GetRowsCount(g) == RowsFrom(g, 1)

Lo(a, b) == IF a <= b THEN a ELSE b
Hi(a, b) == IF a <= b THEN b ELSE a

(* sheet.Range(Cells(start), Cells(end)).value.  Cells(r, c) with an        *)
(* index below 1 is a COM error.  Range(c1, c2) is the rectangle with the   *)
(* two cells as corners, in whatever order they are given.  Its value is a  *)
(* tuple of row tuples, except for a range of one cell, whose value is the  *)
(* value of the cell itself.                                                *)
RangeValue(g, start, end) ==
    IF start[1] < 1 \/ start[2] < 1 \/ end[1] < 1 \/ end[2] < 1
    THEN [outcome |-> "com_error", kind |-> "none", value |-> <<>>]
    ELSE LET r1 == Lo(start[1], end[1])
             r2 == Hi(start[1], end[1])
             c1 == Lo(start[2], end[2])
             c2 == Hi(start[2], end[2]) IN
         IF r1 = r2 /\ c1 = c2
         THEN [outcome |-> "ok", kind |-> "scalar",
               value |-> <<Cell(g, r1, c1)>>]
         ELSE [outcome |-> "ok", kind |-> "rows",
               value |-> [i \in 1..(r2 - r1 + 1) |->
                            [j \in 1..(c2 - c1 + 1) |->
                               Cell(g, r1 + i - 1, c1 + j - 1)]]]

(* fetch_range, consumed to its end: `yield from range_object.value`.       *)
(* A tuple of rows yields its rows; a str yields its characters; any other  *)
(* scalar is not iterable and raises TypeError.                             *)
FetchRange(g, start, end) ==
    LET v == RangeValue(g, start, end) IN
    IF v.outcome # "ok"
    THEN [outcome |-> v.outcome, kind |-> "rows", items |-> <<>>]
    ELSE IF v.kind = "rows"
    THEN [outcome |-> "ok", kind |-> "rows", items |-> v.value]
    ELSE IF v.value[1] \in TextValues
    THEN [outcome |-> "ok", kind |-> "chars", items |-> Chars(v.value[1])]
    ELSE [outcome |-> "TypeError", kind |-> "rows", items |-> <<>>]

(* all((rows_count, columns_count)): None and 0 are false. *)
AllGiven(rows_count, columns_count) ==
    /\ rows_count \notin {NoneArg, 0}
    /\ columns_count \notin {NoneArg, 0}

(* fetch_all, consumed to its end. *)
FetchAll(g, rows_count, columns_count) ==
    IF ~AllGiven(rows_count, columns_count)
    THEN FetchRange(g, <<1, 1>>, <<GetRowsCount(g), GetColumnsCount(g)>>)
    ELSE FetchRange(g, <<1, 1>>, <<rows_count, columns_count>>)

NoOut == [op |-> "none", rows_count |-> NoneArg, columns_count |-> NoneArg,
          start |-> <<0, 0>>, end |-> <<0, 0>>, outcome |-> "ok",
          kind |-> "rows", items |-> <<>>, result |-> 0]

get_columns_count ==
    /\ out' = [NoOut EXCEPT !.op = "get_columns_count",
                            !.result = GetColumnsCount(grid)]
    /\ UNCHANGED <<sessionVars, grid, rec>>

get_rows_count ==
    /\ out' = [NoOut EXCEPT !.op = "get_rows_count",
                            !.result = GetRowsCount(grid)]
    /\ UNCHANGED <<sessionVars, grid, rec>>

fetch_all(rows_count, columns_count) ==
    /\ LET r == FetchAll(grid, rows_count, columns_count) IN
       out' = [NoOut EXCEPT !.op = "fetch_all",
                            !.rows_count = rows_count,
                            !.columns_count = columns_count,
                            !.outcome = r.outcome,
                            !.kind = r.kind,
                            !.items = r.items]
    /\ UNCHANGED <<sessionVars, grid, rec>>

fetch_range(start, end) ==
    /\ LET r == FetchRange(grid, start, end) IN
       out' = [NoOut EXCEPT !.op = "fetch_range",
                            !.start = start,
                            !.end = end,
                            !.outcome = r.outcome,
                            !.kind = r.kind,
                            !.items = r.items]
    /\ UNCHANGED <<sessionVars, grid, rec>>

(* self.sheet.Cells(cell_position).value = value; writing None empties      *)
(* the cell.                                                                *)
update_cell(cell_position, value) ==
    /\ grid' = [grid EXCEPT ![cell_position[1]][cell_position[2]] = value]
    /\ out' = [NoOut EXCEPT !.op = "update_cell", !.start = cell_position]
    /\ UNCHANGED <<sessionVars, rec>>

(* A session that has opened a workbook of one sheet, with any contents. *)
BoundSession ==
    /\ excel_app = "live"
    /\ files = [p \in {ExistingPath} |-> BlankSheets]
    /\ books = <<[id |-> 1, path |-> ExistingPath, names |-> BlankSheets]>>
    /\ active = 1
    /\ work_book = 1
    /\ sheet = <<1, 1>>
    /\ released = 0
    /\ pc = "block"
    /\ last = NoCall

InitScan ==
    /\ BoundSession
    /\ grid \in Grids
    /\ out = NoOut
    /\ rec = <<>>

Counts == {NoneArg} \cup (1..MaxRow) \cup (1..MaxCol)

NextScan ==
    \/ get_columns_count
    \/ get_rows_count
    \/ \E r, c \in Counts : fetch_all(r, c)
    \/ \E s, e \in Positions : fetch_range(s, e)
    \/ \E p \in Positions, v \in CellValues : update_cell(p, v)

SpecScan == InitScan /\ [][NextScan]_vars

----------------------------------------------------------------------------
(* Properties of the cells (checked under SpecScan). *)

SetMax(S) == CHOOSE m \in S : \A k \in S : m >= k

(* The number of populated leading cells of row 1 / of column 1. *)
LeadingInRow(g) ==
    SetMax({n \in 0..MaxCol : \A k \in 1..n : g[1][k] # "None"})

LeadingInColumn(g) ==
    SetMax({n \in 0..MaxRow : \A k \in 1..n : g[k][1] # "None"})

(* C1: get_columns_count returns the number of populated leading cells of   *)
(* row 1, get_rows_count that of column 1, whatever values the cells hold.  *)
C1_CountsArePopulatedPrefix ==
    /\ out.op = "get_columns_count" => out.result = LeadingInRow(grid)
    /\ out.op = "get_rows_count" => out.result = LeadingInColumn(grid)

(* C5: fetch_all with both counts supplied, or with both omitted, yields    *)
(* exactly R rows of exactly C values each, row i holding the cells (i, 1)  *)
(* to (i, C) in order, with R, C the supplied counts or else the scanned    *)
(* ones.                                                                    *)
C5_FetchAllYieldsRegion ==
    (/\ out.op = "fetch_all"
     /\ (out.rows_count = NoneArg) = (out.columns_count = NoneArg))
    => LET R == IF out.rows_count = NoneArg
                THEN GetRowsCount(grid) ELSE out.rows_count
           C == IF out.columns_count = NoneArg
                THEN GetColumnsCount(grid) ELSE out.columns_count IN
       /\ out.kind = "rows"
       /\ Len(out.items) = R
       /\ \A i \in 1..R :
            /\ Len(out.items[i]) = C
            /\ \A j \in 1..C : out.items[i][j] = Cell(grid, i, j)

(* C6: fetch_all with exactly one of the two counts supplied fails and      *)
(* yields nothing.                                                          *)
C6_PartialCountsRejected ==
    (/\ out.op = "fetch_all"
     /\ (out.rows_count = NoneArg) # (out.columns_count = NoneArg))
    => (out.outcome # "ok" /\ Len(out.items) = 0)

(* C7: fetch_range with end before start fails with InvalidRegion and       *)
(* yields nothing.                                                          *)
C7_MalformedRegionRejected ==
    (/\ out.op = "fetch_range"
     /\ (out.end[1] < out.start[1] \/ out.end[2] < out.start[2]))
    => (out.outcome = "InvalidRegion" /\ Len(out.items) = 0)

----------------------------------------------------------------------------
(* get_as_dict *)

MaxHeaders == 2     \* length of the header row
MaxRowLen  == 2     \* length of a data row
MaxData    == 2     \* number of data rows

Labels     == {"Name", "Age"}
DataValues == {"7.0", "ab"}

MinOf(m, n) == IF m <= n THEN m ELSE n

(* zip(headers, row): the pairs of the two sequences, position by position, *)
(* up to the end of the shorter one.                                        *)
Zip(headers, row) ==
    [i \in 1..MinOf(Len(headers), Len(row)) |-> <<headers[i], row[i]>>]

(* A mapping that keeps the first value of a repeated key. *)
DictPutKeepFirst(d, key, value) ==
    IF \E k \in 1..Len(d) : d[k][1] = key
    THEN d
    ELSE Append(d, <<key, value>>)

(* d[key] = value on a Python dict d, kept as the sequence of its           *)
(* <<key, value>> items in insertion order: a key that is present keeps its *)
(* place and takes the new value, a new key goes to the end.                *)
DictPut(d, key, value) ==
    IF \E k \in 1..Len(d) : d[k][1] = key
    THEN [k \in 1..Len(d) |-> IF d[k][1] = key THEN <<key, value>> ELSE d[k]]
    ELSE Append(d, <<key, value>>)

(* dict(pairs): the pairs are inserted from the first to the last. *)
RECURSIVE DictOf(_)
DictOf(pairs) ==
    IF pairs = <<>>
    THEN <<>>
    ELSE LET n == Len(pairs) IN
         DictPut(DictOf(SubSeq(pairs, 1, n - 1)), pairs[n][1], pairs[n][2])

(* get_as_dict, consumed to its end: one dict per row of data, in order. *)
GetAsDict(headers, data) ==
    [r \in 1..Len(data) |-> DictOf(Zip(headers, data[r]))]

NoRec == [op |-> "none", headers |-> <<>>, data |-> <<>>, records |-> <<>>]

(* One call of get_as_dict on the arguments the caller has prepared. *)
get_as_dict ==
    /\ rec.op = "none"
    /\ rec' = [rec EXCEPT !.op = "get_as_dict",
                          !.records = GetAsDict(rec.headers, rec.data)]
    /\ UNCHANGED <<sessionVars, grid, out>>

InitDict ==
    /\ SessionInit
    /\ files = [p \in {ExistingPath} |-> BlankSheets]
    /\ grid = EmptyGrid
    /\ out = NoOut
    /\ \E headers \in SeqsUpTo(Labels, MaxHeaders),
          data \in SeqsUpTo(SeqsUpTo(DataValues, MaxRowLen), MaxData) :
            rec = [NoRec EXCEPT !.headers = headers, !.data = data]

NextDict == get_as_dict

SpecDict == InitDict /\ [][NextDict]_vars

----------------------------------------------------------------------------
(* Properties of get_as_dict (checked under SpecDict). *)

Keys(d) == {d[k][1] : k \in 1..Len(d)}

(* The value a dict holds for a key it has. *)
Lookup(d, key) == d[CHOOSE k \in 1..Len(d) : d[k][1] = key][2]

(* C8 as claimed: one record per data row, in order; the keys of a record   *)
(* are header labels, the record has min(len(headers), len(row)) entries    *)
(* and the i-th header maps to the i-th value below that minimum.           *)
C8_RecordsPairPositionally ==
    rec.op = "get_as_dict" =>
        /\ Len(rec.records) = Len(rec.data)
        /\ \A r \in 1..Len(rec.data) :
            LET d == rec.records[r]
                m == MinOf(Len(rec.headers), Len(rec.data[r])) IN
            /\ Keys(d) \subseteq SeqRange(rec.headers)
            /\ Len(d) = m
            /\ \A i \in 1..m :
                 /\ rec.headers[i] \in Keys(d)
                 /\ Lookup(d, rec.headers[i]) = rec.data[r][i]

(* C8 amended: one record per data row, in order; the keys of a record are  *)
(* exactly the labels among the first m = min(len(headers), len(row))       *)
(* headers, each key once, in the order of first occurrence; a label maps   *)
(* to the value at the last position below m where it occurs.  When those   *)
(* m labels are pairwise distinct the record has exactly m entries and the  *)
(* i-th header maps to the i-th value.                                      *)
C8_RecordsPairLastOccurrence ==
    rec.op = "get_as_dict" =>
        /\ Len(rec.records) = Len(rec.data)
        /\ \A r \in 1..Len(rec.data) :
            LET d   == rec.records[r]
                row == rec.data[r]
                m   == MinOf(Len(rec.headers), Len(row))
                lastAt(i) == SetMax({j \in 1..m : rec.headers[j] = rec.headers[i]}) IN
            /\ Keys(d) = {rec.headers[i] : i \in 1..m}
            /\ Keys(d) \subseteq SeqRange(rec.headers)
            /\ Len(d) = Cardinality(Keys(d))
            /\ \A i \in 1..m : Lookup(d, rec.headers[i]) = row[lastAt(i)]
            /\ \A k, l \in 1..Len(d) :
                 k < l => \E i, j \in 1..m :
                    /\ i < j
                    /\ rec.headers[i] = d[k][1]
                    /\ rec.headers[j] = d[l][1]
                    /\ \A h \in 1..(j - 1) : rec.headers[h] # d[l][1]
            /\ (\A i, j \in 1..m : i # j => rec.headers[i] # rec.headers[j])
               => /\ Len(d) = m
                  /\ \A i \in 1..m : d[i] = <<rec.headers[i], row[i]>>

(* Two data rows of different lengths under a header row that repeats a     *)
(* label, the repeated label meeting two different values.                  *)
C8_Witness ==
    /\ rec.op = "get_as_dict"
    /\ Len(rec.headers) = 2
    /\ rec.headers[1] = rec.headers[2]
    /\ Len(rec.data) = 2
    /\ Len(rec.data[1]) = 2
    /\ rec.data[1][1] # rec.data[1][2]
    /\ Len(rec.data[2]) = 1
    /\ Len(rec.records) = 2

====
